---------------------------- MODULE Spec2Model ----------------------------
(***************************************************************************)
(* Model of the notes manager in src/app.py: the node table with its       *)
(* self-referencing parent_id, the history table, the in-process cache     *)
(* (node_cache, cache_lock) and the request handlers that read and write   *)
(* them.                                                                   *)
(*                                                                         *)
(* Conventions.                                                            *)
(*  - Text (title, usage, code_snippet, tags) is a sequence of one-letter  *)
(*    strings, so that strip, html.escape, [:200], split and join are      *)
(*    computed character by character.                                     *)
(*  - SQL NULL / Python None in an integer column is NULL (0): the code    *)
(*    never stores 0 in parent_id (save and move turn 0 into None) and     *)
(*    primary keys start at 1.                                             *)
(*  - nodes and history are the tables as the handler's session leaves     *)
(*    them when it returns.  The database is the default one of            *)
(*    src/app.py:33 (SQLite): a new row gets max(id)+1, foreign keys are   *)
(*    not enforced.                                                        *)
(*  - The columns custom_modules, is_expanded and created_at are left out: *)
(*    no handler branches on them.                                         *)
(***************************************************************************)
EXTENDS Integers, Sequences, FiniteSets, TLC

VARIABLES
    nodes,       \* node table: id -> row
    history,     \* history table: sequence of rows, in insertion order
    node_cache,  \* the dict node_cache: sequence of entries, in dict order
    now,         \* the clock read by datetime.now(), in seconds
    resp,        \* the response of the last request
    walk,        \* the frame of a running is_descendant call
    cache_lock,  \* holder of cache_lock (NoThread when free)
    frames,      \* per thread: the cache call it is executing
    written,     \* history variable: per key, the last completed set
    served,      \* history variable: the number of requests answered
    committed    \* the tables as the database holds them for a new session

vars == <<nodes, history, node_cache, now, resp, walk, cache_lock, frames, written, served,
          committed>>

-----------------------------------------------------------------------------
(* Bounds of the model *)

MaxNodes == 3
MaxHistory == 2
MaxRequests == 4
WalkNodes == 3

-----------------------------------------------------------------------------
(* Values *)

NULL == 0

CACHE_TIMEOUT == 5

MaxCacheEntries == 100

SimpleCut == 200

MaxTitleLen == 200

Max(S) == CHOOSE x \in S : \A y \in S : y <= x

Range(s) == {s[i] : i \in 1..Len(s)}

Get(d, k, default) == IF k \in DOMAIN d THEN d[k] ELSE default

Cut(s, n) == IF Len(s) <= n THEN s ELSE SubSeq(s, 1, n)

Repeat(c, n) == [i \in 1..n |-> c]

-----------------------------------------------------------------------------
(* Text helpers *)

EscapeChar(c) ==
    CASE c = "&" -> <<"&", "a", "m", "p", ";">>
      [] c = "<" -> <<"&", "l", "t", ";">>
      [] c = ">" -> <<"&", "g", "t", ";">>
      [] c = "\"" -> <<"&", "q", "u", "o", "t", ";">>
      [] c = "'" -> <<"&", "#", "x", "2", "7", ";">>
      [] OTHER -> <<c>>

EscapedChars == {"&", "<", ">", "\"", "'"}

\* html.escape replaces each of the five characters and copies the others.
RECURSIVE html_escape(_)
html_escape(s) ==
    IF Range(s) \cap EscapedChars = {} THEN s
    ELSE IF Len(s) = 1 THEN EscapeChar(s[1])
    ELSE LET half == Len(s) \div 2 IN
         html_escape(SubSeq(s, 1, half)) \o html_escape(SubSeq(s, half + 1, Len(s)))

\* html.escape leaves no "<" in cleaned, so none of the re.sub calls of
\* lines 182-184 (patterns starting with "<") changes it.
sanitize_input(text) == html_escape(text)

RECURSIVE LStrip(_)
LStrip(s) == IF s # <<>> /\ Head(s) = " " THEN LStrip(Tail(s)) ELSE s

RECURSIVE RStrip(_)
RStrip(s) ==
    IF s # <<>> /\ s[Len(s)] = " " THEN RStrip(SubSeq(s, 1, Len(s) - 1)) ELSE s

Strip(s) == RStrip(LStrip(s))

IllegalTitleChars == {"<", ">", "&", "\"", "'", "\\", "/", "|", "?", "*"}

\* validate_node_title without the length check of lines 196-197
validate_title_any_length(title) ==
    IF title = <<>> THEN [ok |-> FALSE, value |-> <<>>]
    ELSE LET t == Strip(title) IN
         IF Len(t) < 1 THEN [ok |-> FALSE, value |-> <<>>]
         ELSE IF Range(t) \cap IllegalTitleChars # {} THEN [ok |-> FALSE, value |-> <<>>]
         ELSE [ok |-> TRUE, value |-> t]

\* validate_node_title: [ok, value]; value is the stripped title when ok.
validate_node_title(title) ==
    IF title = <<>> THEN [ok |-> FALSE, value |-> <<>>]
    ELSE LET t == Strip(title) IN
         IF Len(t) < 1 THEN [ok |-> FALSE, value |-> <<>>]
         ELSE IF Len(t) > MaxTitleLen THEN [ok |-> FALSE, value |-> <<>>]
         ELSE IF Range(t) \cap IllegalTitleChars # {} THEN [ok |-> FALSE, value |-> <<>>]
         ELSE [ok |-> TRUE, value |-> t]

\* ','.join(list)
RECURSIVE JoinTags(_)
JoinTags(l) ==
    IF l = <<>> THEN <<>>
    ELSE IF Len(l) = 1 THEN l[1]
    ELSE l[1] \o <<",">> \o JoinTags(Tail(l))

\* s.split(',') for a non-empty s
RECURSIVE SplitFrom(_, _)
SplitFrom(s, cur) ==
    IF s = <<>> THEN <<cur>>
    ELSE IF Head(s) = "," THEN <<cur>> \o SplitFrom(Tail(s), <<>>)
    ELSE SplitFrom(Tail(s), Append(cur, Head(s)))

SplitTags(s) == IF s = <<>> THEN <<>> ELSE SplitFrom(s, <<>>)

-----------------------------------------------------------------------------
(* Rows *)

Row(parent_id, type, title, usage, code_snippet, tags, is_favorite, updated_at) ==
    [parent_id |-> parent_id, type |-> type, title |-> title, usage |-> usage,
     code_snippet |-> code_snippet, tags |-> tags, is_favorite |-> is_favorite,
     updated_at |-> updated_at]

\* Node.to_dict_simple
to_dict_simple(id, n) ==
    [id |-> id,
     parent_id |-> n.parent_id,
     title |-> n.title,
     type |-> n.type,
     usage |-> Cut(n.usage, SimpleCut),
     code_snippet |-> Cut(n.code_snippet, SimpleCut),
     tags |-> SplitTags(n.tags),
     is_favorite |-> n.is_favorite,
     updated_at |-> n.updated_at]

\* Node.query.get(id) finds a row
Exists(tbl, id) == id \in DOMAIN tbl

\* the id the database gives a new row
NewId(tbl) == IF DOMAIN tbl = {} THEN 1 ELSE Max(DOMAIN tbl) + 1

Insert(tbl, id, row) == [i \in DOMAIN tbl \cup {id} |-> IF i = id THEN row ELSE tbl[i]]

-----------------------------------------------------------------------------
(* is_descendant(parent_id, child_id), one loop iteration at a time *)

NoWalk == [pc |-> "idle", parent_id |-> NULL, child_id |-> NULL, current_id |-> NULL,
           visited |-> {}, lookups |-> <<>>, ret |-> FALSE]

WalkDone(w, r) == [w EXCEPT !.pc = "done", !.ret = r]

\* lines 141-146
WalkStart(parent_id, child_id) ==
    LET w == [NoWalk EXCEPT !.parent_id = parent_id, !.child_id = child_id] IN
    IF parent_id = child_id THEN WalkDone(w, TRUE)
    ELSE [w EXCEPT !.pc = "loop", !.current_id = child_id]

\* WalkStep looking at the direct parent only
WalkStepDirect(tbl, w) ==
    IF w.current_id = NULL THEN WalkDone(w, FALSE)
    ELSE IF w.current_id \in w.visited THEN WalkDone(w, FALSE)
    ELSE LET v == [w EXCEPT !.visited = @ \cup {w.current_id},
                            !.lookups = Append(@, w.current_id)] IN
         IF ~Exists(tbl, w.current_id) THEN WalkDone(v, FALSE)
         ELSE IF tbl[w.current_id].parent_id = NULL THEN WalkDone(v, FALSE)
         ELSE WalkDone(v, tbl[w.current_id].parent_id = w.parent_id)

\* WalkStep without the visited set
WalkStepUnguarded(tbl, w) ==
    IF w.current_id = NULL THEN WalkDone(w, FALSE)
    ELSE LET v == [w EXCEPT !.lookups = Append(@, w.current_id)] IN
         IF ~Exists(tbl, w.current_id) THEN WalkDone(v, FALSE)
         ELSE IF tbl[w.current_id].parent_id = NULL THEN WalkDone(v, FALSE)
         ELSE IF tbl[w.current_id].parent_id = w.parent_id THEN WalkDone(v, TRUE)
         ELSE [v EXCEPT !.current_id = tbl[w.current_id].parent_id]

\* lines 148-162: the loop test and one pass through the body
WalkStep(tbl, w) ==
    IF w.current_id = NULL THEN WalkDone(w, FALSE)
    ELSE IF w.current_id \in w.visited THEN WalkDone(w, FALSE)
    ELSE LET v == [w EXCEPT !.visited = @ \cup {w.current_id},
                            !.lookups = Append(@, w.current_id)] IN
         IF ~Exists(tbl, w.current_id) THEN WalkDone(v, FALSE)
         ELSE IF tbl[w.current_id].parent_id = NULL THEN WalkDone(v, FALSE)
         ELSE IF tbl[w.current_id].parent_id = w.parent_id THEN WalkDone(v, TRUE)
         ELSE [v EXCEPT !.current_id = tbl[w.current_id].parent_id]

RECURSIVE WalkRun(_, _)
WalkRun(tbl, w) == IF w.pc = "done" THEN w ELSE WalkRun(tbl, WalkStep(tbl, w))

is_descendant(tbl, parent_id, child_id) == WalkRun(tbl, WalkStart(parent_id, child_id)).ret

-----------------------------------------------------------------------------
(* The cache: get_cached_node, set_cached_node, clear_node_cache *)

NoThread == 0

None == [none |-> TRUE]

Some(v) == [none |-> FALSE, value |-> v]

Keys(c) == {c[i].key : i \in 1..Len(c)}

Entry(c, k) == c[CHOOSE i \in 1..Len(c) : c[i].key = k]

\* get_cached_node serving an entry that is exactly CACHE_TIMEOUT old
CacheGetInclusive(c, k, t) ==
    IF k \in Keys(c)
    THEN IF t - Entry(c, k).ts <= CACHE_TIMEOUT THEN Some(Entry(c, k).data) ELSE None
    ELSE None

\* lines 273-277
CacheGet(c, k, t) ==
    IF k \in Keys(c)
    THEN IF t - Entry(c, k).ts < CACHE_TIMEOUT THEN Some(Entry(c, k).data) ELSE None
    ELSE None

\* line 282: assignment to a dict keeps the position of a key already there
CachePut(c, k, data, t) ==
    IF k \in Keys(c)
    THEN [i \in 1..Len(c) |-> IF c[i].key = k THEN [key |-> k, data |-> data, ts |-> t] ELSE c[i]]
    ELSE Append(c, [key |-> k, data |-> data, ts |-> t])

\* min(node_cache.keys(), key=...): the first key in dict order with the
\* least timestamp
Oldest(c) ==
    CHOOSE i \in 1..Len(c) :
        /\ \A j \in 1..Len(c) : c[i].ts <= c[j].ts
        /\ \A j \in 1..(i - 1) : c[j].ts > c[i].ts

RemoveAt(c, i) == SubSeq(c, 1, i - 1) \o SubSeq(c, i + 1, Len(c))

\* the eviction dropping the last key of the dict instead of the oldest
CacheEvictLast(c) == IF Len(c) > MaxCacheEntries THEN RemoveAt(c, Len(c)) ELSE c

\* lines 284-287
CacheEvict(c) == IF Len(c) > MaxCacheEntries THEN RemoveAt(c, Oldest(c)) ELSE c

set_cached_node(c, k, data, t) == CacheEvict(CachePut(c, k, data, t))

\* clear_node_cache(node_id): NoKey stands for the call without an argument
\* (node_id is None), EmptyKey for the key that is the empty string
NoKey == [k |-> "None", n |-> 0]

EmptyKey == [k |-> "", n |-> 0]

\* line 292, `if node_id:` -- None and the empty string are falsy
Falsy(k) == k \in {NoKey, EmptyKey}

\* clear_node_cache dropping the tree alone when no key is given
clear_tree_only(c, k) ==
    IF ~Falsy(k)
    THEN IF k \in Keys(c) THEN RemoveAt(c, CHOOSE i \in 1..Len(c) : c[i].key = k) ELSE c
    ELSE IF [k |-> "tree", n |-> 0] \in Keys(c)
         THEN RemoveAt(c, CHOOSE i \in 1..Len(c) : c[i].key = [k |-> "tree", n |-> 0])
         ELSE c

clear_node_cache(c, k) ==
    IF ~Falsy(k)
    THEN IF k \in Keys(c) THEN RemoveAt(c, CHOOSE i \in 1..Len(c) : c[i].key = k) ELSE c
    ELSE <<>>

TreeKey == [k |-> "tree", n |-> 0]

FolderKey(fid) == [k |-> "folder", n |-> fid]

NodeKey(nid) == [k |-> "node", n |-> nid]

-----------------------------------------------------------------------------
(* Tree views: build_tree_node, to_dict_with_children *)

MaxTreeDepth == 10

RECURSIVE SortedIds(_)
SortedIds(S) ==
    IF S = {} THEN <<>>
    ELSE LET m == CHOOSE x \in S : \A y \in S : x <= y IN <<m>> \o SortedIds(S \ {m})

ChildIds(tbl, pid) == {i \in DOMAIN tbl : tbl[i].parent_id = pid}

WithChildren(d, children) ==
    [k \in DOMAIN d \cup {"children"} |-> IF k = "children" THEN children ELSE d[k]]

\* build_tree_node without the depth check of line 370
RECURSIVE build_tree_uncapped(_, _, _)
build_tree_uncapped(tbl, id, depth) ==
    LET kids == SortedIds(ChildIds(tbl, id)) IN
    WithChildren(to_dict_simple(id, tbl[id]),
                 [i \in 1..Len(kids) |-> build_tree_uncapped(tbl, kids[i], depth + 1)])

\* build_tree_node(node, nodes_by_id, depth); nodes_by_id iterates in the
\* order of Node.query.all(), the order of the ids
RECURSIVE build_tree_node(_, _, _)
build_tree_node(tbl, id, depth) ==
    IF depth > MaxTreeDepth THEN to_dict_simple(id, tbl[id])
    ELSE LET kids == SortedIds(ChildIds(tbl, id)) IN
         WithChildren(to_dict_simple(id, tbl[id]),
                      [i \in 1..Len(kids) |-> build_tree_node(tbl, kids[i], depth + 1)])

\* the tree built without the test of line 356: every row starts a tree
BuildTreeAllRows(tbl) ==
    LET tops == SortedIds(DOMAIN tbl) IN
    [i \in 1..Len(tops) |-> build_tree_node(tbl, tops[i], 0)]

\* lines 347-358
BuildTree(tbl) ==
    LET tops == SortedIds({i \in DOMAIN tbl : tbl[i].parent_id = NULL}) IN
    [i \in 1..Len(tops) |-> build_tree_node(tbl, tops[i], 0)]

\* the letters of the model's texts, in ascending code point order
Alphabet == <<" ", "&", ",", "<", "a", "b", "r", "s", "x">>

Ord(c) == CHOOSE i \in 1..Len(Alphabet) : Alphabet[i] = c

RECURSIVE TextLess(_, _)
TextLess(s, t) ==
    IF t = <<>> THEN FALSE
    ELSE IF s = <<>> THEN TRUE
    ELSE IF Head(s) = Head(t) THEN TextLess(Tail(s), Tail(t))
    ELSE Ord(Head(s)) < Ord(Head(t))

\* order_by(Node.title); rows of equal title come in the order of their ids
RECURSIVE SortedByTitle(_, _)
SortedByTitle(tbl, S) ==
    IF S = {} THEN <<>>
    ELSE LET m == CHOOSE x \in S : \A y \in S \ {x} :
                      \/ TextLess(tbl[x].title, tbl[y].title)
                      \/ tbl[x].title = tbl[y].title /\ x < y
         IN <<m>> \o SortedByTitle(tbl, S \ {m})

\* Node.to_dict_with_children(max_depth, current_depth)
RECURSIVE to_dict_with_children(_, _, _, _)
to_dict_with_children(tbl, id, max_depth, current_depth) ==
    IF current_depth >= max_depth THEN to_dict_simple(id, tbl[id])
    ELSE LET kids == SortedByTitle(tbl, ChildIds(tbl, id)) IN
         WithChildren(to_dict_simple(id, tbl[id]),
                      [i \in 1..Len(kids) |->
                          to_dict_with_children(tbl, kids[i], max_depth, current_depth + 1)])

-----------------------------------------------------------------------------
(* Responses *)

\* {code, data}; op names the handler that answered
Resp(op, code, data) == [op |-> op, code |-> code, data |-> data]

NoResp == Resp("none", 0, None)

\* what a request outside the cache and is_descendant specifications leaves alone
IdleCalls == UNCHANGED <<walk, cache_lock, frames, written, committed>>

\* a request is answered
Served == served < MaxRequests /\ served' = served + 1

\* `if cached:` -- a cached value that is an empty list counts as a miss
Truthy(o) == ~o.none /\ o.value # <<>>

-----------------------------------------------------------------------------
(* Read handlers *)

\* get_tree, lines 337-366
GetTree ==
    LET cached == CacheGet(node_cache, TreeKey, now) IN
    /\ IF Truthy(cached)
       THEN /\ resp' = Resp("get_tree", 200, cached)
            /\ UNCHANGED node_cache
       ELSE LET tree == BuildTree(nodes) IN
            /\ node_cache' = set_cached_node(node_cache, TreeKey, tree, now)
            /\ resp' = Resp("get_tree", 200, Some(tree))
    /\ UNCHANGED <<nodes, history, now>>
    /\ IdleCalls

\* get_folder, lines 384-405
GetFolder(fid) ==
    LET cached == CacheGet(node_cache, FolderKey(fid), now) IN
    /\ IF Truthy(cached)
       THEN /\ resp' = Resp("get_folder", 200, cached)
            /\ UNCHANGED node_cache
       ELSE LET ids == SortedIds(ChildIds(nodes, IF fid = 0 THEN NULL ELSE fid))
                result == [i \in 1..Len(ids) |-> to_dict_simple(ids[i], nodes[ids[i]])]
            IN /\ node_cache' = set_cached_node(node_cache, FolderKey(fid), result, now)
               /\ resp' = Resp("get_folder", 200, Some(result))
    /\ UNCHANGED <<nodes, history, now>>
    /\ IdleCalls

\* get_node, lines 407-424
GetNode(nid) ==
    LET cached == CacheGet(node_cache, NodeKey(nid), now) IN
    /\ IF ~cached.none   \* the cached dict has keys: it is truthy
       THEN /\ resp' = Resp("get_node", 200, cached)
            /\ UNCHANGED node_cache
       ELSE IF ~Exists(nodes, nid)
       THEN /\ resp' = Resp("get_node", 404, None)
            /\ UNCHANGED node_cache
       ELSE LET result == to_dict_with_children(nodes, nid, 1, 0) IN
            /\ node_cache' = set_cached_node(node_cache, NodeKey(nid), result, now)
            /\ resp' = Resp("get_node", 200, Some(result))
    /\ UNCHANGED <<nodes, history, now>>
    /\ IdleCalls

-----------------------------------------------------------------------------
(* Write handlers *)

TagLimit == 20

TagLen == 50

TagStrCut == 500

\* a tags input is [kind |-> "list", v |-> list of texts] or
\* [kind |-> "str", v |-> <<text>>]
NoTags == [kind |-> "list", v |-> <<>>]

\* iterating over the tags input: a str yields its letters
TagItems(tags) ==
    IF tags.kind = "list" THEN tags.v ELSE [i \in 1..Len(tags.v[1]) |-> <<tags.v[1][i]>>]

RECURSIVE StripKept(_, _)
StripKept(l, maxlen) ==
    IF l = <<>> THEN <<>>
    ELSE IF Strip(Head(l)) # <<>> /\ (maxlen < 0 \/ Len(Head(l)) <= maxlen)
         THEN <<Strip(Head(l))>> \o StripKept(Tail(l), maxlen)
         ELSE StripKept(Tail(l), maxlen)

\* lines 637-642, the tags of an updated node
UpdatedTags(tags) ==
    IF tags.kind = "list" THEN JoinTags(Cut(StripKept(tags.v, TagLen), TagLimit))
    ELSE Cut(tags.v[1], TagStrCut)

\* line 659, the tags of a new node
CreatedTags(tags) == JoinTags(Cut(StripKept(TagItems(tags), -1), TagLimit))

\* lines 901-905, the tags restored from a snapshot (a list)
RestoredTags(l) == JoinTags(StripKept(l, -1))

\* lines 590-603
ResolveParent(tbl, raw) ==
    IF raw = 0 THEN NULL
    ELSE IF raw > 0
         THEN IF ~Exists(tbl, raw) \/ tbl[raw].type # "folder" THEN NULL ELSE raw
         ELSE raw

\* lines 614-619
should_save_history(node, clean_title, data) ==
    /\ node.type = "note"
    /\ \/ node.title # clean_title
       \/ node.code_snippet # sanitize_input(Get(data, "code_snippet", <<>>))
       \/ node.usage # sanitize_input(Get(data, "usage", <<>>))

\* History(note_id=node.id, title=node.title, content=json.dumps(node.to_dict_simple())):
\* json.loads gives back the dict that json.dumps was given, so content is the dict
Snapshot(hist, id, node) ==
    [id |-> Len(hist) + 1, note_id |-> id, title |-> node.title,
     content |-> to_dict_simple(id, node)]

\* lines 630-646
UpdatedNode(node, clean_title, pid, data, t) ==
    [node EXCEPT !.title = clean_title,
                 !.usage = sanitize_input(Get(data, "usage", <<>>)),
                 !.code_snippet = sanitize_input(Get(data, "code_snippet", <<>>)),
                 !.parent_id = pid,
                 !.tags = UpdatedTags(Get(data, "tags", NoTags)),
                 !.is_favorite = Get(data, "is_favorite", node.is_favorite),
                 !.updated_at = t]

\* lines 652-661
CreatedNode(clean_title, node_type, pid, data, t) ==
    Row(pid, node_type, clean_title,
        sanitize_input(Get(data, "usage", <<>>)),
        sanitize_input(Get(data, "code_snippet", <<>>)),
        CreatedTags(Get(data, "tags", NoTags)),
        Get(data, "is_favorite", FALSE), t)

\* save, lines 551-675; data is the JSON object of the request
Save(data) ==
    LET title == validate_node_title(Get(data, "title", <<>>))
        node_type == Get(data, "type", "note")
        pid == ResolveParent(nodes, Get(data, "parent_id", 0))
        node_id == Get(data, "id", 0)
        fail(code) == /\ resp' = Resp("save", code, None)
                      /\ UNCHANGED <<nodes, history, node_cache>>
    IN
    /\ IF ~title.ok THEN fail(400)
       ELSE IF node_type \notin {"folder", "note"} THEN fail(400)
       ELSE IF node_id # 0
       THEN IF ~Exists(nodes, node_id) THEN fail(404)
            ELSE LET node == nodes[node_id] IN
                 /\ history' = IF should_save_history(node, title.value, data)
                               THEN Append(history, Snapshot(history, node_id, node))
                               ELSE history
                 /\ nodes' = [nodes EXCEPT ![node_id] =
                                 UpdatedNode(node, title.value, pid, data, now)]
                 /\ node_cache' = clear_node_cache(node_cache, NoKey)
                 /\ resp' = Resp("save", 200, Some([id |-> node_id, title |-> title.value,
                                                     type |-> node.type]))
       ELSE /\ nodes' = Insert(nodes, NewId(nodes),
                               CreatedNode(title.value, node_type, pid, data, now))
            /\ UNCHANGED history
            /\ node_cache' = clear_node_cache(node_cache, NoKey)
            /\ resp' = Resp("save", 200, Some([id |-> NewId(nodes), title |-> title.value,
                                                type |-> node_type]))
    /\ UNCHANGED now
    /\ IdleCalls

\* the check of lines 691-702 made on the first id of the list alone
FirstBadOfHead(tbl, ids) ==
    IF ids = <<>> THEN 0
    ELSE IF Head(ids) = 0 THEN 400
    ELSE IF ~Exists(tbl, Head(ids)) THEN 404
    ELSE 0

\* lines 691-702: the first id of the list that ends the request, 0 when none does
RECURSIVE FirstBad(_, _)
FirstBad(tbl, ids) ==
    IF ids = <<>> THEN 0
    ELSE IF Head(ids) = 0 THEN 400
    ELSE IF ~Exists(tbl, Head(ids)) THEN 404
    ELSE FirstBad(tbl, Tail(ids))

\* db.session.delete(node) for each named node, then commit: the children
\* relationship is lazy='noload', its collection is always empty, so the delete
\* cascade of lines 67-70 finds no child row; the rows named are the rows deleted
DeleteRows(tbl, ids) == [i \in DOMAIN tbl \ Range(ids) |-> tbl[i]]

\* a delete that takes the history rows of the deleted notes with it
DeleteNodesAndHistory(ids) ==
    LET fail(code) == /\ resp' = Resp("delete", code, None)
                      /\ UNCHANGED <<nodes, history, node_cache>>
        Kept(h) == h.note_id \notin Range(ids)
    IN
    /\ IF ids = <<>> THEN fail(400)
       ELSE IF FirstBad(nodes, ids) # 0 THEN fail(FirstBad(nodes, ids))
       ELSE /\ nodes' = DeleteRows(nodes, ids)
            /\ history' = SelectSeq(history, Kept)
            /\ node_cache' = clear_node_cache(node_cache, NoKey)
            /\ resp' = Resp("delete", 200, None)
    /\ UNCHANGED now
    /\ IdleCalls

\* delete_nodes, lines 677-721
DeleteNodes(ids) ==
    LET fail(code) == /\ resp' = Resp("delete", code, None)
                      /\ UNCHANGED <<nodes, node_cache>>
    IN
    /\ IF ids = <<>> THEN fail(400)
       ELSE IF FirstBad(nodes, ids) # 0 THEN fail(FirstBad(nodes, ids))
       ELSE /\ nodes' = DeleteRows(nodes, ids)
            /\ node_cache' = clear_node_cache(node_cache, NoKey)
            /\ resp' = Resp("delete", 200, None)
    /\ UNCHANGED <<history, now>>
    /\ IdleCalls

\* line 763: the veto of a move
MoveVetoed(tbl, item_id, target_id) == is_descendant(tbl, target_id, item_id)

\* move_node, lines 723-785; 0 stands for a missing or null id in the request
MoveNode(item_id, raw_target) ==
    LET target_id == IF raw_target = 0 THEN NULL ELSE raw_target
        fail(code) == /\ resp' = Resp("move", code, None)
                      /\ UNCHANGED <<nodes, node_cache>>
    IN
    /\ IF item_id = 0 THEN fail(400)
       ELSE IF ~Exists(nodes, item_id) THEN fail(404)
       ELSE IF target_id # NULL /\ ~Exists(nodes, target_id) THEN fail(400)
       ELSE IF target_id # NULL /\ nodes[target_id].type # "folder" THEN fail(400)
       ELSE IF target_id # NULL /\ MoveVetoed(nodes, item_id, target_id) THEN fail(400)
       ELSE IF nodes[item_id].parent_id = target_id
       THEN /\ resp' = Resp("move", 200, None)
            /\ UNCHANGED <<nodes, node_cache>>
       ELSE /\ nodes' = [nodes EXCEPT ![item_id].parent_id = target_id,
                                      ![item_id].updated_at = now]
            /\ node_cache' = clear_node_cache(node_cache, NoKey)
            /\ resp' = Resp("move", 200, Some(to_dict_simple(item_id, nodes'[item_id])))
    /\ UNCHANGED <<history, now>>
    /\ IdleCalls

\* a toggle that marks the node as a favourite whatever it was
ToggleFavoriteSet(node_id) ==
    LET fail(code) == /\ resp' = Resp("toggle_favorite", code, None)
                      /\ UNCHANGED <<nodes, node_cache>>
    IN
    /\ IF node_id = 0 THEN fail(400)
       ELSE IF ~Exists(nodes, node_id) THEN fail(404)
       ELSE /\ nodes' = [nodes EXCEPT ![node_id].is_favorite = TRUE,
                                      ![node_id].updated_at = now]
            /\ node_cache' = clear_node_cache(node_cache, NoKey)
            /\ resp' = Resp("toggle_favorite", 200,
                             Some([id |-> node_id, is_favorite |-> TRUE]))
    /\ UNCHANGED <<history, now>>
    /\ IdleCalls

\* toggle_favorite, lines 820-852
ToggleFavorite(node_id) ==
    LET fail(code) == /\ resp' = Resp("toggle_favorite", code, None)
                      /\ UNCHANGED <<nodes, node_cache>>
    IN
    /\ IF node_id = 0 THEN fail(400)
       ELSE IF ~Exists(nodes, node_id) THEN fail(404)
       ELSE /\ nodes' = [nodes EXCEPT ![node_id].is_favorite = ~@,
                                      ![node_id].updated_at = now]
            /\ node_cache' = clear_node_cache(node_cache, NoKey)
            /\ resp' = Resp("toggle_favorite", 200,
                             Some([id |-> node_id, is_favorite |-> ~nodes[node_id].is_favorite]))
    /\ UNCHANGED <<history, now>>
    /\ IdleCalls

\* History.content is text.  A record without the field raw stands for the
\* text json.dumps made of that dict; [raw |-> text] is a content that some
\* other writer left: text that json.loads refuses, the text of a JSON list,
\* or no text
Unparsable == [raw |-> "{"]

NotAnObject == [raw |-> "[]"]

EmptyContent == [raw |-> ""]

\* what lines 893-895 make of a content
JsonKind(content) ==
    IF "raw" \notin DOMAIN content THEN "dict"
    ELSE CASE content.raw = "" -> "empty"
           [] content.raw = "[]" -> "list"
           [] OTHER -> "error"

\* lines 896-910
RestoredNode(note, old_data, t) ==
    [note EXCEPT !.title = Get(old_data, "title", note.title),
                 !.usage = Get(old_data, "usage", note.usage),
                 !.code_snippet = Get(old_data, "code_snippet", note.code_snippet),
                 !.tags = RestoredTags(Get(old_data, "tags", <<>>)),
                 !.updated_at = t]

\* restore_history, lines 871-921
RestoreHistory(history_id) ==
    LET fail(code) == /\ resp' = Resp("restore", code, None)
                      /\ UNCHANGED <<nodes, history, node_cache>>
    IN
    /\ IF history_id \notin 1..Len(history) THEN fail(404)
       ELSE LET h == history[history_id] IN
            IF ~Exists(nodes, h.note_id) THEN fail(404)
            ELSE LET note == nodes[h.note_id]
                     kind == JsonKind(h.content)
                 IN
                 \* old_data.get on a list raises AttributeError out of the
                 \* with block: the savepoint is rolled back, line 917 answers
                 IF kind = "list" THEN fail(500)
                 \* line 911 returns from inside the with block, which ends
                 \* without an exception and keeps the row added at line 891
                 ELSE IF kind = "error"
                 THEN /\ history' = Append(history, Snapshot(history, h.note_id, note))
                      /\ resp' = Resp("restore", 500, None)
                      /\ UNCHANGED <<nodes, node_cache>>
                 ELSE /\ history' = Append(history, Snapshot(history, h.note_id, note))
                      /\ nodes' = IF kind = "empty" THEN nodes
                                  ELSE [nodes EXCEPT ![h.note_id] =
                                           RestoredNode(note, h.content, now)]
                      /\ node_cache' = clear_node_cache(node_cache, NoKey)
                      /\ resp' = Resp("restore", 200,
                                      Some(to_dict_simple(h.note_id, nodes'[h.note_id])))
    /\ UNCHANGED now
    /\ IdleCalls

-----------------------------------------------------------------------------
(* The store after init_data, lines 924-940: one top-level folder.  Its title *)
(* and its two tags are written with the letters r and s.                      *)

\* the id init_data's folder gets in the empty table
RootId == NewId(<<>>)

RootTitle == <<"r">>

RootTags == <<"s", ",", "r">>

RootRow == Row(NULL, "folder", RootTitle, <<>>, <<>>, RootTags, FALSE, 0)

InitStore ==
    /\ nodes = Insert(<<>>, 1, RootRow)
    /\ history = <<>>

Threads == {1, 2}

NoFrame == [pc |-> "idle"]

\* the two tables as one value
Tables(n, h) == [nodes |-> n, history |-> h]

\* no call is under way, no request has been answered, and the database holds
\* the tables the process starts with
InitCalls ==
    /\ walk = NoWalk
    /\ cache_lock = NoThread
    /\ frames = [t \in Threads |-> NoFrame]
    /\ written = <<>>
    /\ served = 0
    /\ committed = Tables(nodes, history)

-----------------------------------------------------------------------------
(* Spec: the requests, each handled as a whole, one at a time *)

TitleA == <<"a">>

TitleB == <<"b">>

NodeIds == 1..MaxNodes

SaveInputs ==
    [title : {TitleA}, type : {"folder", "note"}, parent_id : 0..MaxNodes]
    \cup [id : NodeIds, title : {TitleA, TitleB}, parent_id : 0..MaxNodes]

\* the request stays within the bounds of the model
SaveFits(data) ==
    IF Get(data, "id", 0) = 0 THEN NewId(nodes) <= MaxNodes
    ELSE (/\ Exists(nodes, data.id)
          /\ validate_node_title(Get(data, "title", <<>>)).ok
          /\ should_save_history(nodes[data.id],
                                 validate_node_title(Get(data, "title", <<>>)).value, data))
         => Len(history) < MaxHistory

RestoreFits(history_id) ==
    (history_id \in 1..Len(history) /\ Exists(nodes, history[history_id].note_id))
    => Len(history) < MaxHistory

DeleteInputs == {<<i>> : i \in 0..MaxNodes} \cup {<<i, j>> : i, j \in NodeIds}

Init ==
    /\ InitStore
    /\ node_cache = <<>>
    /\ now = 0
    /\ resp = NoResp
    /\ InitCalls

DoSave == Served /\ \E data \in SaveInputs : SaveFits(data) /\ Save(data)

DoDelete == Served /\ \E ids \in DeleteInputs : DeleteNodes(ids)

DoMove == Served /\ \E item_id \in 0..MaxNodes, target_id \in 0..MaxNodes : MoveNode(item_id, target_id)

DoToggle == Served /\ \E node_id \in 0..MaxNodes : ToggleFavorite(node_id)

DoRestore == Served /\ \E history_id \in 1..MaxHistory : RestoreFits(history_id) /\ RestoreHistory(history_id)

DoGetTree == Served /\ GetTree

DoGetFolder == Served /\ \E fid \in {0} : GetFolder(fid)

DoGetNode == Served /\ \E nid \in {1} : GetNode(nid)

Next ==
    \/ DoSave
    \/ DoDelete
    \/ DoMove
    \/ DoToggle
    \/ DoRestore
    \/ DoGetTree
    \/ DoGetFolder
    \/ DoGetNode

Spec == Init /\ [][Next]_vars

-----------------------------------------------------------------------------
(* SpecText: saves and restores of notes whose texts need escaping or are      *)
(* longer than the cut of to_dict_simple                                       *)

LongText == Repeat("x", SimpleCut + 1)

TextSaveInputs ==
    [title : {TitleA}, type : {"note"}, usage : {<<>>, LongText}]
    \cup [id : 1..2, title : {TitleA, TitleB, <<" ", "a">>},
          usage : {<<>>, <<"&">>, LongText}, code_snippet : {<<>>, <<"<">>}]

TextSave == \E data \in TextSaveInputs : Served /\ SaveFits(data) /\ Save(data)

TextRestore ==
    \E history_id \in 1..MaxHistory : Served /\ RestoreFits(history_id) /\ RestoreHistory(history_id)

TextDelete == \E node_id \in 1..2 : Served /\ DeleteNodes(<<node_id>>)

NextText ==
    \/ TextSave
    \/ TextRestore
    \/ TextDelete

SpecText == Init /\ [][NextText]_vars

-----------------------------------------------------------------------------
(* SpecWalk: is_descendant on every parent_id table over WalkNodes ids, with   *)
(* cycles, self-parents and parent_ids of missing rows                         *)

WalkIds == 1..WalkNodes

WalkRow(parent_id) == Row(parent_id, "folder", TitleA, <<>>, <<>>, <<>>, FALSE, 0)

WalkTables ==
    UNION {[ids -> {WalkRow(p) : p \in 0..WalkNodes}] : ids \in SUBSET WalkIds}

InitWalk ==
    /\ nodes \in WalkTables
    /\ history = <<>>
    /\ node_cache = <<>>
    /\ now = 0
    /\ resp = NoResp
    /\ InitCalls

IsDescendantCall ==
    /\ walk.pc \in {"idle", "done"}
    /\ \E parent_id \in WalkIds, child_id \in WalkIds : walk' = WalkStart(parent_id, child_id)
    /\ UNCHANGED <<nodes, history, node_cache, now, resp, cache_lock, frames, written, served,
                   committed>>

IsDescendantLoop ==
    /\ walk.pc = "loop"
    /\ walk' = WalkStep(nodes, walk)
    /\ UNCHANGED <<nodes, history, node_cache, now, resp, cache_lock, frames, written, served,
                   committed>>

NextWalk ==
    \/ IsDescendantCall
    \/ IsDescendantLoop

SpecWalk == InitWalk /\ [][NextWalk]_vars

\* a started loop is run to its end
SpecWalkFair == SpecWalk /\ WF_vars(IsDescendantLoop)

-----------------------------------------------------------------------------
(* The parent relation *)

ParentOf(tbl, n) == IF n \in DOMAIN tbl THEN tbl[n].parent_id ELSE NULL

\* the ids reached from n by following parent_id one to k times
RECURSIVE ReachedWithin(_, _, _)
ReachedWithin(tbl, n, k) ==
    IF k = 0 \/ ParentOf(tbl, n) = NULL THEN {}
    ELSE {ParentOf(tbl, n)} \cup ReachedWithin(tbl, ParentOf(tbl, n), k - 1)

Ancestors(tbl, n) == ReachedWithin(tbl, n, Cardinality(DOMAIN tbl) + 1)

HasCycle(tbl) == \E n \in DOMAIN tbl : n \in Ancestors(tbl, n)

\* the walk up from n comes back to a row it has passed
RunsIntoCycle(tbl, n) ==
    \/ n \in Ancestors(tbl, n)
    \/ \E m \in Ancestors(tbl, n) : m \in Ancestors(tbl, m)

NoDuplicates(s) == \A i, j \in 1..Len(s) : i # j => s[i] # s[j]

\* C9: on a table without cycles, is_descendant(a, n) is true exactly when
\* a = n or a is reached from n by following parent_id links
C9_IsDescendantExact ==
    (walk.pc = "done" /\ ~HasCycle(nodes)) =>
        (walk.ret <=> (\/ walk.parent_id = walk.child_id
                       \/ walk.parent_id \in Ancestors(nodes, walk.child_id)))

\* a grandparent was found in two look-ups, and is_descendant(a, a) has answered
C9_Witness ==
    /\ walk.pc = "done"
    /\ ~HasCycle(nodes)
    /\ walk.ret
    /\ Len(walk.lookups) = 2
    /\ walk.parent_id # walk.child_id

\* C10: on every table is_descendant ends, having looked up no row twice, and
\* answers false when the walk from n comes back to a row it has passed
\* without meeting a
C10_WalkTerminates ==
    /\ [](/\ NoDuplicates(walk.lookups)
          /\ Len(walk.lookups) <= Cardinality(DOMAIN nodes) + 1
          /\ (/\ walk.pc = "done"
              /\ RunsIntoCycle(nodes, walk.child_id)
              /\ walk.parent_id # walk.child_id
              /\ walk.parent_id \notin Ancestors(nodes, walk.child_id)) => ~walk.ret)
    /\ ((walk.pc = "loop") ~> (walk.pc = "done"))

\* a walk that went round a cycle of two rows and stopped on the revisit
C10_Witness ==
    /\ walk.pc = "done"
    /\ ~walk.ret
    /\ Len(walk.lookups) = 2
    /\ walk.current_id = walk.child_id
    /\ walk.current_id \in walk.visited
    /\ walk.child_id \in Ancestors(nodes, walk.child_id)

-----------------------------------------------------------------------------
(* The cache functions as the threads of the server run them: `with            *)
(* cache_lock` is entered when the lock is free and left with the return; the  *)
(* statements of set_cached_node are separate steps.                           *)

Frame(pc, key, data) == [pc |-> pc, key |-> key, data |-> data]

CacheIdle == UNCHANGED <<nodes, history, walk, served, committed>>

Without(f, S) == [k \in DOMAIN f \ S |-> f[k]]

With(f, k, v) == [x \in DOMAIN f \cup {k} |-> IF x = k THEN v ELSE f[x]]

\* the lock as thread t takes it
Holding(t) == t

Enter(t, frame) ==
    /\ frames[t].pc = "idle"
    /\ cache_lock = NoThread
    /\ cache_lock' = Holding(t)
    /\ frames' = [frames EXCEPT ![t] = frame]
    /\ UNCHANGED <<node_cache, now, resp, written>>
    /\ CacheIdle

Leave(t) ==
    /\ cache_lock' = NoThread
    /\ frames' = [frames EXCEPT ![t] = NoFrame]

\* get_cached_node(key): line 272
EnterGet(t, key) == Enter(t, Frame("get", key, None))

\* lines 273-277
GetReturn(t) ==
    /\ frames[t].pc = "get"
    /\ resp' = Resp("get_cached_node", 0,
                    [key |-> frames[t].key, at |-> now,
                     value |-> CacheGet(node_cache, frames[t].key, now)])
    /\ Leave(t)
    /\ UNCHANGED <<node_cache, now, written>>
    /\ CacheIdle

\* set_cached_node(key, data): line 281
EnterSet(t, key, data) == Enter(t, Frame("set_put", key, data))

\* line 282
SetPut(t) ==
    /\ frames[t].pc = "set_put"
    /\ node_cache' = CachePut(node_cache, frames[t].key, frames[t].data, now)
    /\ written' = With(written, frames[t].key, [data |-> frames[t].data, ts |-> now])
    /\ frames' = [frames EXCEPT ![t].pc = "set_evict"]
    /\ UNCHANGED <<cache_lock, now, resp>>
    /\ CacheIdle

\* lines 284-287
SetEvict(t) ==
    /\ frames[t].pc = "set_evict"
    /\ node_cache' = CacheEvict(node_cache)
    /\ written' = Without(written, Keys(node_cache) \ Keys(node_cache'))
    /\ resp' = Resp("set_cached_node", 0, [key |-> frames[t].key])
    /\ Leave(t)
    /\ UNCHANGED now
    /\ CacheIdle

\* clear_node_cache(key): line 291
EnterClear(t, key) == Enter(t, Frame("clear", key, None))

\* lines 292-296
ClearReturn(t) ==
    /\ frames[t].pc = "clear"
    /\ node_cache' = clear_node_cache(node_cache, frames[t].key)
    /\ written' = IF frames[t].key = NoKey THEN Without(written, DOMAIN written)
                                           ELSE Without(written, {frames[t].key})
    /\ resp' = Resp("clear_node_cache", 0, [key |-> frames[t].key])
    /\ Leave(t)
    /\ UNCHANGED now
    /\ CacheIdle

\* a second passes
Tick(limit) ==
    /\ now < limit
    /\ now' = now + 1
    /\ UNCHANGED <<nodes, history, node_cache, resp, walk, cache_lock, frames, written, served,
                   committed>>

InitCache ==
    /\ InitStore
    /\ node_cache = <<>>
    /\ now = 0
    /\ resp = NoResp
    /\ InitCalls

-----------------------------------------------------------------------------
(* SpecTTL: get, set and invalidate on TtlKeys keys while the clock runs past  *)
(* the timeout                                                                 *)

TtlKeys == 1

MaxTime == 6

TtlKeySet == {FolderKey(i) : i \in 1..TtlKeys}

Values == {"v", "w"}

TtlGet == \E t \in Threads, key \in TtlKeySet : EnterGet(t, key)

TtlSet == \E t \in Threads, key \in TtlKeySet, data \in Values : EnterSet(t, key, data)

TtlClear == \E t \in Threads, key \in TtlKeySet \cup {NoKey} : EnterClear(t, key)

DoGetReturn == \E t \in Threads : GetReturn(t)

DoSetPut == \E t \in Threads : SetPut(t)

DoSetEvict == \E t \in Threads : SetEvict(t)

DoClearReturn == \E t \in Threads : ClearReturn(t)

TtlTick == Tick(MaxTime)

NextTTL ==
    \/ TtlGet
    \/ TtlSet
    \/ TtlClear
    \/ DoGetReturn
    \/ DoSetPut
    \/ DoSetEvict
    \/ DoClearReturn
    \/ TtlTick

SpecTTL == InitCache /\ [][NextTTL]_vars

\* C6: get(k) returns the value of the last set of k when that set is less
\* than CACHE_TIMEOUT seconds old and k was not invalidated since, and absent
\* in every other case
C6_GetWithinTTL ==
    [][\A t \in Threads :
          GetReturn(t) =>
              LET k == frames[t].key IN
              resp'.data.value =
                  IF k \in DOMAIN written /\ now - written[k].ts < CACHE_TIMEOUT
                  THEN Some(written[k].data) ELSE None]_vars

\* a get that found its entry expired at the age of exactly CACHE_TIMEOUT
C6_Witness ==
    /\ resp.op = "get_cached_node"
    /\ resp.data.value = None
    /\ resp.data.key \in DOMAIN written
    /\ resp.data.at - written[resp.data.key].ts = CACHE_TIMEOUT
    /\ now = resp.data.at

-----------------------------------------------------------------------------
(* SpecFill: two threads get, set and invalidate on a cache that earlier sets  *)
(* have filled up to one entry below MaxCacheEntries                           *)

FillKeys == 2

FillTime == 1

\* the entries in the cache when the threads start
FillStart == MaxCacheEntries - 1

\* the first key, which is in the cache, and FillKeys keys which are not
FillKeySet == {FolderKey(1)} \cup {FolderKey(FillStart + i) : i \in 1..FillKeys}

\* the cache after set_cached_node on the keys 1..n at time 0
Prefilled(n) == [i \in 1..n |-> [key |-> FolderKey(i), data |-> "v", ts |-> 0]]

InitFill ==
    /\ InitStore
    /\ node_cache = Prefilled(FillStart)
    /\ now = 0
    /\ resp = NoResp
    /\ walk = NoWalk
    /\ cache_lock = NoThread
    /\ frames = [t \in Threads |-> NoFrame]
    /\ written = [k \in Keys(node_cache) |-> [data |-> "v", ts |-> 0]]
    /\ served = 0
    /\ committed = Tables(nodes, history)

FillGet == \E t \in Threads : EnterGet(t, FolderKey(1))

FillSet == \E t \in Threads, key \in FillKeySet : EnterSet(t, key, "v")

FillClear == \E t \in Threads, key \in {FolderKey(1), NoKey} : EnterClear(t, key)

FillTick == Tick(FillTime)

NextFill ==
    \/ FillGet
    \/ FillSet
    \/ FillClear
    \/ DoGetReturn
    \/ DoSetPut
    \/ DoSetEvict
    \/ DoClearReturn
    \/ FillTick

SpecFill == InitFill /\ [][NextFill]_vars

MinTs(c) == CHOOSE m \in {c[i].ts : i \in 1..Len(c)} : \A i \in 1..Len(c) : m <= c[i].ts

\* C7: whenever no thread holds the lock the cache has at most
\* MaxCacheEntries entries; the eviction step of a set that made the count
\* MaxCacheEntries + 1 removes one entry, one with the least timestamp and
\* not the entry the set wrote, and leaves the others as they were
C7_CacheBound ==
    /\ [](cache_lock = NoThread => Len(node_cache) <= MaxCacheEntries)
    /\ [](Len(node_cache) <= MaxCacheEntries + 1 /\ Cardinality(Keys(node_cache)) = Len(node_cache))
    /\ [][\A t \in Threads :
            (SetEvict(t) /\ Len(node_cache) = MaxCacheEntries + 1) =>
                \E i \in 1..Len(node_cache) :
                    /\ node_cache' = RemoveAt(node_cache, i)
                    /\ node_cache[i].ts = MinTs(node_cache)
                    /\ node_cache[i].key # frames[t].key
                    /\ frames[t].key \in Keys(node_cache')]_vars

\* a set returned after evicting the second key, the first key being newer
C7_Witness ==
    /\ resp.op = "set_cached_node"
    /\ cache_lock = NoThread
    /\ Len(node_cache) = MaxCacheEntries
    /\ resp.data.key \in Keys(node_cache)
    /\ FolderKey(1) \in Keys(node_cache)
    /\ FolderKey(2) \notin Keys(node_cache)

-----------------------------------------------------------------------------
(* Claims about the requests *)

\* C1: whatever requests were answered, no row is reached from itself by
\* following parent_id links
C1_Forest == ~HasCycle(nodes)

\* C2: a move of an existing row X to an existing folder T is refused with
\* code 400, X keeping its parent, when T is X or a descendant of X, and in
\* every other case succeeds and makes T the parent of X
C2_MoveVetoesDescendants ==
    [][\A x \in NodeIds, t \in NodeIds :
          (/\ Exists(nodes, x)
           /\ Exists(nodes, t)
           /\ nodes[t].type = "folder"
           /\ MoveNode(x, t)) =>
              IF t = x \/ x \in Ancestors(nodes, t)
              THEN resp'.code = 400 /\ nodes'[x].parent_id = nodes[x].parent_id
              ELSE resp'.code = 200 /\ nodes'[x].parent_id = t]_vars

\* C3: after a successful delete neither the rows named nor the rows below
\* them remain, and no remaining row has the parent_id of a missing row
C3_DeleteCascades ==
    [][\A ids \in DeleteInputs :
          (DeleteNodes(ids) /\ resp'.code = 200) =>
              /\ \A n \in DOMAIN nodes :
                    (n \in Range(ids) \/ Ancestors(nodes, n) \cap Range(ids) # {})
                        => n \notin DOMAIN nodes'
              /\ \A n \in DOMAIN nodes' :
                    nodes'[n].parent_id = NULL \/ nodes'[n].parent_id \in DOMAIN nodes']_vars

Last(s) == s[Len(s)]

\* the row added to the history table by the step, which changes no other row
OneRowAdded ==
    /\ Len(history') = Len(history) + 1
    /\ SubSeq(history', 1, Len(history)) = history

\* the added row is a copy of title, usage and code_snippet of row n as
\* they are before the step
CopiesBefore(n) ==
    /\ Last(history').note_id = n
    /\ Last(history').title = nodes[n].title
    /\ Last(history').content.title = nodes[n].title
    /\ Last(history').content.usage = nodes[n].usage
    /\ Last(history').content.code_snippet = nodes[n].code_snippet

\* C4: a successful save on an existing note adds no history row when the
\* sanitized title, usage and code_snippet of the input equal the stored
\* ones, and otherwise exactly one row, which holds the three fields as
\* they were before the update; a save on a folder adds none
C4_HistoryOnSave ==
    [][\A data \in TextSaveInputs :
          (/\ Get(data, "id", 0) # 0
           /\ Exists(nodes, Get(data, "id", 0))
           /\ Save(data)
           /\ resp'.code = 200) =>
              LET n == data.id
                  same == /\ nodes[n].title = Strip(data.title)
                          /\ nodes[n].usage = sanitize_input(Get(data, "usage", <<>>))
                          /\ nodes[n].code_snippet = sanitize_input(Get(data, "code_snippet", <<>>))
              IN IF nodes[n].type = "note" /\ ~same
                 THEN OneRowAdded /\ CopiesBefore(n)
                 ELSE history' = history]_vars

\* C5: restoring a history row whose note exists gives the note the title,
\* usage and code_snippet of the row's snapshot and adds exactly one
\* history row, a copy of the note as it is before the restore
C5_RestoreEffect ==
    [][\A history_id \in 1..MaxHistory :
          (/\ history_id <= Len(history)
           /\ Exists(nodes, history[history_id].note_id)
           /\ RestoreHistory(history_id)) =>
              LET h == history[history_id] IN
              /\ resp'.code = 200
              /\ nodes'[h.note_id].title = h.content.title
              /\ nodes'[h.note_id].usage = h.content.usage
              /\ nodes'[h.note_id].code_snippet = h.content.code_snippet
              /\ OneRowAdded
              /\ CopiesBefore(h.note_id)]_vars

WriteOps == {"save", "delete", "move", "toggle_favorite", "restore"}

\* what get_tree, get_folder(0) and get_node(1) compute from the store
Recomputed(tbl, op) ==
    CASE op = "get_tree" -> Some(BuildTree(tbl))
      [] op = "get_folder" ->
            LET ids == SortedIds(ChildIds(tbl, NULL)) IN
            Some([i \in 1..Len(ids) |-> to_dict_simple(ids[i], tbl[ids[i]])])
      [] op = "get_node" -> Some(to_dict_with_children(tbl, 1, 1, 0))

\* C8: a save, delete, move, toggle_favorite or restore that answers 200
\* and changed a table leaves the cache empty, and so every read that
\* answers 200 answers what it computes from the tables as they are
C8_WritesEmptyCache ==
    [][/\ (/\ resp'.op \in WriteOps
           /\ resp'.code = 200
           /\ <<nodes', history'>> # <<nodes, history>>) => node_cache' = <<>>
       /\ (/\ resp'.op \in {"get_tree", "get_folder", "get_node"}
           /\ resp'.code = 200
           /\ served' # served) => resp'.data = Recomputed(nodes', resp'.op)]_vars

\* a restore answered 200 as the last of MaxRequests requests and left the
\* cache empty
C8_Witness ==
    /\ resp.op = "restore"
    /\ resp.code = 200
    /\ node_cache = <<>>
    /\ served = MaxRequests

-----------------------------------------------------------------------------
(* SpecTree: get_tree on tables with chains longer than the depth cap, with    *)
(* cycles, self-parents and parent_ids of missing rows                         *)

TreeNodes == 14

\* rows 1..n: 1..m is a chain below the top-level row 1; the rows m+1..n are
\* a chain whose first row has row n ("cycle"), row 1 ("branch") or a missing
\* row ("orphan") as its parent
ChainParent(n, m, kind, i) ==
    IF i = 1 /\ m >= 1 THEN NULL
    ELSE IF i # m + 1 THEN i - 1
    ELSE CASE kind = "cycle" -> n
           [] kind = "branch" -> IF m >= 1 THEN 1 ELSE NULL
           [] kind = "orphan" -> n + 1

ChainTable(n, m, kind) == [i \in 1..n |-> WalkRow(ChainParent(n, m, kind, i))]

TreeTables ==
    WalkTables \cup
    {ChainTable(n, m, kind) : n \in 1..TreeNodes, m \in 0..TreeNodes,
                              kind \in {"cycle", "branch", "orphan"}}

InitTree ==
    /\ nodes \in TreeTables
    /\ history = <<>>
    /\ node_cache = <<>>
    /\ now = 0
    /\ resp = NoResp
    /\ InitCalls

TreeGet == Served /\ GetTree

TreeTick == Tick(CACHE_TIMEOUT)

NextTree ==
    \/ TreeGet
    \/ TreeTick

SpecTree == InitTree /\ [][NextTree]_vars

\* the rows of a tree node and of the nodes below it
RECURSIVE TreeCount(_)
TreeCount(d) ==
    IF "children" \notin DOMAIN d THEN 1
    ELSE LET RECURSIVE Sum(_)
             Sum(i) == IF i = 0 THEN 0 ELSE TreeCount(d.children[i]) + Sum(i - 1)
         IN 1 + Sum(Len(d.children))

\* the ids of a tree node and of the nodes below it
RECURSIVE TreeIds(_)
TreeIds(d) ==
    IF "children" \notin DOMAIN d THEN {d.id}
    ELSE {d.id} \cup UNION {TreeIds(d.children[i]) : i \in 1..Len(d.children)}

\* a node at a depth up to MaxTreeDepth has a children field, a node at depth
\* MaxTreeDepth + 1 has none, and there is no deeper node
RECURSIVE CappedAt(_, _)
CappedAt(d, depth) ==
    IF depth > MaxTreeDepth THEN "children" \notin DOMAIN d
    ELSE /\ "children" \in DOMAIN d
         /\ \A i \in 1..Len(d.children) : CappedAt(d.children[i], depth + 1)

\* the greatest depth index of a node
RECURSIVE DeepestIn(_, _)
DeepestIn(d, depth) ==
    IF "children" \notin DOMAIN d THEN depth
    ELSE Max({depth} \cup {DeepestIn(d.children[i], depth + 1) : i \in 1..Len(d.children)})

\* C11: on every table, cyclic ones included, get_tree answers with a tree
\* that has no more nodes than the table has rows, in which every node at a
\* depth index up to MaxTreeDepth has a children field and every node at
\* depth index MaxTreeDepth + 1 is a leaf without one
C11_TreeDepthCap ==
    (resp.op = "get_tree") =>
        /\ resp.code = 200
        /\ LET tree == resp.data.value IN
           /\ \A i \in 1..Len(tree) :
                 /\ CappedAt(tree[i], 0)
                 /\ DeepestIn(tree[i], 0) <= MaxTreeDepth + 1
                 /\ TreeCount(tree[i]) = Cardinality(TreeIds(tree[i]))
                 /\ TreeIds(tree[i]) \subseteq DOMAIN nodes
           /\ \A i, j \in 1..Len(tree) :
                 i # j => TreeIds(tree[i]) \cap TreeIds(tree[j]) = {}

\* get_tree answered on a table with a cycle and a chain cut at the cap
C11_Witness ==
    /\ resp.op = "get_tree"
    /\ resp.code = 200
    /\ HasCycle(nodes)
    /\ \E i \in 1..Len(resp.data.value) :
          /\ DeepestIn(resp.data.value[i], 0) = MaxTreeDepth + 1
          /\ MaxTreeDepth + 3 \in DOMAIN nodes
          /\ MaxTreeDepth + 3 \notin TreeIds(resp.data.value[i])

-----------------------------------------------------------------------------
(* SpecErr: requests that the handlers refuse, among requests that succeed,    *)
(* on a store whose history table may hold a row some other writer left        *)

\* a title of the greatest length that validate_node_title accepts
LongestTitle == Repeat("a", MaxTitleLen)

BadTitles ==
    {<<>>, <<" ">>, <<" ", " ">>, Append(LongestTitle, "a")}
    \cup {<<"a", c>> : c \in IllegalTitleChars}

ErrSaveInputs ==
    [title : {TitleA}, type : {"folder", "note"}, parent_id : -1..1]
    \cup [title : BadTitles \cup {Append(LongestTitle, " ")}, type : {"note"}]
    \cup [title : {TitleA}, type : {"link"}]
    \cup [type : {"note"}]
    \cup [id : NodeIds, title : {TitleB, <<" ">>, <<"a", "<">>}, parent_id : {1}]
    \cup [id : NodeIds, title : {TitleB}, type : {"link"}]

ErrDeleteInputs == {<<i>> : i \in 0..MaxNodes} \cup {<<i, j>> : i, j \in 0..MaxNodes}

\* the history table the process finds at its start: empty, or one row of
\* the note with id 2 with a content that is not a snapshot
ErrHistories ==
    {<<>>} \cup
    {<<[id |-> 1, note_id |-> 2, title |-> TitleA, content |-> c]>> :
        c \in {Unparsable, NotAnObject, EmptyContent}}

InitErr ==
    /\ nodes = Insert(<<>>, RootId, RootRow)
    /\ history \in ErrHistories
    /\ node_cache = <<>>
    /\ now = 0
    /\ resp = NoResp
    /\ InitCalls

ErrSave == Served /\ \E data \in ErrSaveInputs : SaveFits(data) /\ Save(data)

ErrDelete == Served /\ \E ids \in ErrDeleteInputs : DeleteNodes(ids)

ErrMove ==
    Served /\ \E item_id \in 0..MaxNodes, target_id \in 0..MaxNodes : MoveNode(item_id, target_id)

ErrRestore ==
    Served /\ \E history_id \in 1..MaxHistory : RestoreFits(history_id) /\ RestoreHistory(history_id)

ErrGetTree == Served /\ GetTree

NextErr ==
    \/ ErrSave
    \/ ErrDelete
    \/ ErrMove
    \/ ErrRestore
    \/ ErrGetTree

SpecErr == InitErr /\ [][NextErr]_vars

-----------------------------------------------------------------------------
(* Further claims about the requests *)

\* C12: whatever requests were answered, the folder created by init_data is
\* still a row of the table
C12_RootKept == Exists(nodes, RootId) /\ nodes[RootId].type = "folder"

\* the delete request names the sentinel 0 or an id without a row
DeleteRefused(ids) == \E i \in 1..Len(ids) : ids[i] = 0 \/ ~Exists(nodes, ids[i])

\* the first position of such an id
FirstRefused(ids) ==
    CHOOSE i \in 1..Len(ids) :
        /\ ids[i] = 0 \/ ~Exists(nodes, ids[i])
        /\ \A j \in 1..(i - 1) : ids[j] # 0 /\ Exists(nodes, ids[j])

DeleteLeftAll == nodes' = nodes /\ history' = history /\ node_cache' = node_cache

\* C13 as stated: a delete whose list holds the sentinel 0 answers 400, a
\* delete whose list holds an id without a row answers 404, and either
\* leaves the node table, the history table and the cache as they were
C13_DeleteRefusedAsStated ==
    [][\A ids \in ErrDeleteInputs :
          (resp'.op = "delete" /\ DeleteRefused(ids) /\ DeleteNodes(ids)) =>
              /\ resp'.code = IF \E i \in 1..Len(ids) : ids[i] = 0 THEN 400 ELSE 404
              /\ DeleteLeftAll]_vars

\* C13, amended: the first id of the list that is the sentinel 0 or has no
\* row decides the answer, 400 for the sentinel and 404 for a missing row,
\* and the delete leaves the node table, the history table and the cache as
\* they were
C13_DeleteAllOrNothing ==
    [][\A ids \in ErrDeleteInputs :
          (resp'.op = "delete" /\ DeleteRefused(ids) /\ DeleteNodes(ids)) =>
              /\ resp'.code = IF ids[FirstRefused(ids)] = 0 THEN 400 ELSE 404
              /\ DeleteLeftAll]_vars

\* a delete was refused for a missing row while the cache held the tree and
\* the table held other rows
C13_Witness ==
    /\ resp.op = "delete"
    /\ resp.code = 404
    /\ Cardinality(DOMAIN nodes) >= 2
    /\ node_cache # <<>>

\* the first position from i on that holds something other than a blank, 0
\* when there is none
RECURSIVE FirstInk(_, _)
FirstInk(t, i) ==
    IF i > Len(t) THEN 0 ELSE IF t[i] # " " THEN i ELSE FirstInk(t, i + 1)

\* the last such position up to i
RECURSIVE LastInk(_, _)
LastInk(t, i) ==
    IF i = 0 THEN 0 ELSE IF t[i] # " " THEN i ELSE LastInk(t, i - 1)

\* the length of a text without its leading and trailing blanks
TrimmedLen(t) ==
    IF FirstInk(t, 1) = 0 THEN 0 ELSE LastInk(t, Len(t)) - FirstInk(t, 1) + 1

SaveLeftAll == nodes' = nodes /\ history' = history /\ node_cache' = node_cache

ParentIsFolder(tbl, n) ==
    \/ tbl[n].parent_id = NULL
    \/ Exists(tbl, tbl[n].parent_id) /\ tbl[tbl[n].parent_id].type = "folder"

\* C15: no parent_id of the request makes a save fail, the node a save has
\* written has a parent_id that is null or names a folder of the table, and
\* a save or a move on a table in which every parent_id is such leaves a
\* table in which every parent_id is such
C15_ParentResolved ==
    [][(resp'.op \in {"save", "move"} /\ served' # served) =>
          /\ resp'.code # 500
          /\ (resp'.op = "save" /\ resp'.code = 200) =>
                 ParentIsFolder(nodes', resp'.data.value.id)
          /\ (\A n \in DOMAIN nodes : ParentIsFolder(nodes, n)) =>
                 (\A n \in DOMAIN nodes' : ParentIsFolder(nodes', n))]_vars

MoveLeftAll == nodes' = nodes /\ node_cache' = node_cache

\* C16: a move answers 404 when the item has no row and when the target is
\* given and has no row, and 400 when the item is the sentinel 0 and when
\* the target is a row that is not a folder; a move that fails leaves the
\* node table and the cache as they were
C16_MoveErrors ==
    [][\A x \in 0..MaxNodes, t \in 0..MaxNodes :
          (resp'.op = "move" /\ MoveNode(x, t)) =>
              /\ resp'.code # 200 => MoveLeftAll
              /\ IF x = 0 THEN resp'.code = 400
                 ELSE IF ~Exists(nodes, x) THEN resp'.code = 404
                 ELSE IF t # 0 /\ ~Exists(nodes, t) THEN resp'.code = 404
                 ELSE IF t # 0 /\ nodes[t].type # "folder" THEN resp'.code = 400
                 ELSE TRUE]_vars

\* C17: a move of a row to the parent it has, a folder of the table or the
\* top level, answers 200 and leaves the node table as it was
C17_MoveToParentNoOp ==
    [][\A x \in NodeIds, t \in 0..MaxNodes :
          (/\ resp'.op = "move"
           /\ Exists(nodes, x)
           /\ nodes[x].parent_id = (IF t = 0 THEN NULL ELSE t)
           /\ t # 0 => Exists(nodes, t) /\ nodes[t].type = "folder"
           /\ MoveNode(x, t)) =>
              resp'.code = 200 /\ nodes' = nodes]_vars


\* C19: a restore that fails, with 404 because the history row or its note
\* is missing or with another error because the content is not the text of
\* a JSON object, leaves the node table, the history table and the cache as
\* they were
C19_FailedRestoreClean ==
    [][\A history_id \in 1..MaxHistory :
          (resp'.op = "restore" /\ RestoreHistory(history_id)) =>
              /\ (history_id > Len(history) \/ ~Exists(nodes, history[history_id].note_id))
                    => resp'.code = 404
              /\ (/\ history_id <= Len(history)
                  /\ Exists(nodes, history[history_id].note_id)
                  /\ JsonKind(history[history_id].content) \in {"error", "list"})
                    => resp'.code \notin {200, 404}
              /\ resp'.code # 200 =>
                    nodes' = nodes /\ history' = history /\ node_cache' = node_cache]_vars

-----------------------------------------------------------------------------
(* SpecClear: two threads set and invalidate the keys of the tree, of the top  *)
(* level folder and the empty string                                           *)

ClearKeySet == {TreeKey, FolderKey(0), EmptyKey}

ClearSet == \E t \in Threads, key \in ClearKeySet : EnterSet(t, key, "v")

ClearClear == \E t \in Threads, key \in ClearKeySet \cup {NoKey} : EnterClear(t, key)

ClearTick == Tick(FillTime)

NextClear ==
    \/ ClearSet
    \/ ClearClear
    \/ DoSetPut
    \/ DoSetEvict
    \/ DoClearReturn
    \/ ClearTick

SpecClear == InitCache /\ [][NextClear]_vars

\* the entries of c under other keys than k, in their order
OtherEntries(c, k) == LET Other(e) == e.key # k IN SelectSeq(c, Other)

\* C20: an invalidation with a key, the empty string included, leaves every
\* entry under another key in the cache with its data and timestamp; only
\* the invalidation without a key empties the cache
C20_ClearOneKey ==
    [][\A t \in Threads :
          ClearReturn(t) =>
              IF frames[t].key = NoKey THEN node_cache' = <<>>
              ELSE node_cache' = OtherEntries(node_cache, frames[t].key)]_vars

-----------------------------------------------------------------------------
(* SpecTags: saves with tags given as a list and as a string, at and beyond    *)
(* the caps, and restores of the snapshots they leave                          *)

ListOf(v) == [kind |-> "list", v |-> v]

StrOf(v) == [kind |-> "str", v |-> <<v>>]

TagInputs ==
    {ListOf(<<>>),
     ListOf(<<TitleA, <<" ", "b", " ">>, <<" ">>>>),
     ListOf(Repeat(TitleA, TagLimit + 1)),
     ListOf(<<Repeat("x", TagLen)>>),
     ListOf(<<Repeat("x", TagLen + 1)>>),
     StrOf(<<"a", ",", "b">>),
     StrOf(Repeat("x", TagLen + 1))}

TagSaveInputs ==
    [title : {TitleA}, type : {"note"}, tags : TagInputs]
    \cup [id : {2}, title : {TitleA, TitleB}, tags : TagInputs]

TagSave == Served /\ \E data \in TagSaveInputs : SaveFits(data) /\ Save(data)

TagRestore ==
    Served /\ \E history_id \in 1..MaxHistory : RestoreFits(history_id) /\ RestoreHistory(history_id)

NextTags ==
    \/ TagSave
    \/ TagRestore

SpecTags == Init /\ [][NextTags]_vars

\* C18: every row stores at most TagLimit tags, none longer than TagLen
C18_TagCaps ==
    \A n \in DOMAIN nodes :
        LET tags == SplitTags(nodes[n].tags) IN
        /\ Len(tags) <= TagLimit
        /\ \A i \in 1..Len(tags) : Len(tags[i]) <= TagLen

-----------------------------------------------------------------------------
(* The history table over whole requests.                                     *)

\* C21: history is append-only: no step of save, move, delete, toggle_favorite
\* or restore removes or changes a row the table already holds (its note_id,
\* title and content stay), also when the note the row names is deleted
C21_HistoryAppendOnly ==
    [][/\ Len(history') >= Len(history)
       /\ \A i \in 1..Len(history) :
             /\ history'[i].note_id = history[i].note_id
             /\ history'[i].title = history[i].title
             /\ history'[i].content = history[i].content]_vars

\* a delete has removed the note that a history row names, and the row is there
C21_Witness ==
    /\ resp.op = "delete"
    /\ resp.code = 200
    /\ Len(history) >= 1
    /\ ~Exists(nodes, history[1].note_id)

-----------------------------------------------------------------------------
(* toggle_favorite over whole requests.                                       *)

\* what a toggle of an existing node leaves: is_favorite flipped, every other
\* field but updated_at as it was, every other row and the history table as
\* they were; and after a toggle of the same node in the request just before,
\* is_favorite is back at what it was before that one
ToggleFlips(id) ==
    /\ resp'.code = 200
    /\ DOMAIN nodes' = DOMAIN nodes
    /\ nodes'[id].is_favorite = ~nodes[id].is_favorite
    /\ resp'.data.value.is_favorite = nodes'[id].is_favorite
    /\ nodes'[id] = [nodes[id] EXCEPT !.is_favorite = ~@,
                                      !.updated_at = nodes'[id].updated_at]
    /\ \A j \in DOMAIN nodes \ {id} : nodes'[j] = nodes[j]
    /\ history' = history
    /\ (/\ resp.op = "toggle_favorite"
        /\ resp.code = 200
        /\ resp.data.value.id = id) => nodes'[id].is_favorite = ~resp.data.value.is_favorite

ToggleLeftAll == nodes' = nodes /\ history' = history /\ node_cache' = node_cache

\* C22 as stated: toggle_favorite flips is_favorite of an existing node and
\* changes nothing else but updated_at, two consecutive toggles restore
\* is_favorite; every id that names no node is answered not-found (404) and
\* changes nothing
C22_ToggleAsStated ==
    [][\A id \in 0..MaxNodes :
          (resp'.op = "toggle_favorite" /\ ToggleFavorite(id)) =>
              IF Exists(nodes, id) THEN ToggleFlips(id)
              ELSE resp'.code = 404 /\ ToggleLeftAll]_vars

\* C22, amended: toggle_favorite flips is_favorite of an existing node and
\* changes nothing else but updated_at, two consecutive toggles restore
\* is_favorite; an id from 1 up that names no node is answered not-found
\* (404), the id 0 is refused as a bad request (400), and neither changes
\* anything
C22_ToggleFrame ==
    [][\A id \in 0..MaxNodes :
          (resp'.op = "toggle_favorite" /\ ToggleFavorite(id)) =>
              IF Exists(nodes, id) THEN ToggleFlips(id)
              ELSE /\ resp'.code = IF id = 0 THEN 400 ELSE 404
                   /\ ToggleLeftAll]_vars

\* the second of two toggles of the root, the only requests so far, has
\* answered: is_favorite is FALSE again
C22_Witness ==
    /\ served = 2
    /\ resp.op = "toggle_favorite"
    /\ resp.code = 200
    /\ resp.data.value.id = RootId
    /\ ~resp.data.value.is_favorite
    /\ ~nodes[RootId].is_favorite

-----------------------------------------------------------------------------
(* search, lines 426-480, and build_search_result, lines 484-521.  The       *)
(* preview text of a result is left out; every other field is there.         *)

\* str.lower() and SQL lower() on the letters of the model
Lower(c) == IF c = "A" THEN "a" ELSE IF c = "B" THEN "b" ELSE c

\* SQL LIKE: % stands for any run of characters, _ for any one character
RECURSIVE Like(_, _)
Like(pattern, text) ==
    IF pattern = <<>> THEN text = <<>>
    ELSE IF Head(pattern) = "%"
    THEN Like(Tail(pattern), text) \/ (text # <<>> /\ Like(pattern, Tail(text)))
    ELSE /\ text # <<>>
         /\ Head(pattern) = "_" \/ Lower(Head(pattern)) = Lower(Head(text))
         /\ Like(Tail(pattern), Tail(text))

\* column.ilike(f'%{keyword}%'), lines 440, 448, 458
ilike(text, keyword) == Like(<<"%">> \o keyword \o <<"%">>, text)

\* the ids of a set from i on, ascending; left counts the ids still to come
RECURSIVE IdsFrom(_, _, _)
IdsFrom(S, i, left) ==
    IF left = 0 THEN <<>>
    ELSE IF i \in S THEN <<i>> \o IdsFrom(S, i + 1, left - 1)
    ELSE IdsFrom(S, i + 1, left)

Reverse(s) == [i \in 1..Len(s) |-> s[Len(s) + 1 - i]]

\* the order in which a query without ORDER BY meets the rows: SQL leaves it
\* open; the rows come by ascending or by descending id
Scans == {"asc", "desc"}

ScanIds(tbl, scan) ==
    LET asc == IdsFrom(DOMAIN tbl, 1, Cardinality(DOMAIN tbl)) IN
    IF scan = "asc" THEN asc ELSE Reverse(asc)

\* Node.query.filter(column.ilike(...)).limit(n).all()
Matching(tbl, field, keyword, scan, n) ==
    LET Hit(i) == ilike(tbl[i][field], keyword) IN
    Cut(SelectSeq(ScanIds(tbl, scan), Hit), n)

\* depth < 5 at line 489
CrumbDepth == 5

\* lines 486-498: node.parent is the row parent_id names, None when there is none
RECURSIVE SearchCrumbs(_, _, _, _)
SearchCrumbs(tbl, id, depth, acc) ==
    IF depth >= CrumbDepth THEN acc
    ELSE LET crumbs == <<[id |-> id, title |-> tbl[id].title, type |-> tbl[id].type]>> \o acc
             parent_id == tbl[id].parent_id
         IN IF parent_id # NULL /\ Exists(tbl, parent_id)
            THEN SearchCrumbs(tbl, parent_id, depth + 1, crumbs)
            ELSE crumbs

build_search_result(tbl, id, field, base_relevance) ==
    [id |-> id, title |-> tbl[id].title, type |-> tbl[id].type,
     relevance |-> base_relevance, parent_id |-> tbl[id].parent_id,
     updated_at |-> tbl[id].updated_at,
     breadcrumbs |-> SearchCrumbs(tbl, id, 0, <<>>), field |-> field]

TitleWeight == 100

TagsWeight == 80

UsageWeight == 60

TitleCap == 50

TagsCap == 30

UsageCap == 20

UsageGate == 20

ResultCap == 50

MinKeyword == 2

\* lines 444-445, 453-455, 463-465: a result for each id of the list that
\* no result so far names
AddResults(tbl, results, ids, field, weight) ==
    LET New(i) == \A k \in 1..Len(results) : results[k].id # i
        fresh == SelectSeq(ids, New)
    IN results \o [k \in 1..Len(fresh) |-> build_search_result(tbl, fresh[k], field, weight)]

\* lines 468-473: a dict by id, in insertion order, that keeps for an id the
\* first result, or a later one of higher relevance in its place
RECURSIVE Unique(_, _)
Unique(results, acc) ==
    IF results = <<>> THEN acc
    ELSE LET r == Head(results)
             at == {k \in 1..Len(acc) : acc[k].id = r.id}
         IN IF at = {} THEN Unique(Tail(results), Append(acc, r))
            ELSE LET k == CHOOSE x \in at : TRUE IN
                 Unique(Tail(results),
                        IF r.relevance > acc[k].relevance THEN [acc EXCEPT ![k] = r] ELSE acc)

\* list.sort(key=relevance, reverse=True): stable, highest relevance first
RECURSIVE SortByRelevance(_)
SortByRelevance(s) ==
    IF s = <<>> THEN <<>>
    ELSE LET top == Max({s[k].relevance : k \in 1..Len(s)})
             Top(r) == r.relevance = top
             Rest(r) == r.relevance # top
         IN SelectSeq(s, Top) \o SortByRelevance(SelectSeq(s, Rest))

\* search, lines 430-476, on the request parameter q
search(tbl, q, scan) ==
    LET keyword == Strip(q) IN
    IF Len(keyword) < MinKeyword THEN <<>>
    ELSE LET byTitle == AddResults(tbl, <<>>, Matching(tbl, "title", keyword, scan, TitleCap),
                                   "title", TitleWeight)
             byTags == AddResults(tbl, byTitle, Matching(tbl, "tags", keyword, scan, TagsCap),
                                  "tags", TagsWeight)
             results == IF Len(byTags) < UsageGate
                        THEN AddResults(tbl, byTags,
                                        Matching(tbl, "usage", keyword, scan, UsageCap),
                                        "usage", UsageWeight)
                        ELSE byTags
         IN Cut(SortByRelevance(Unique(results, <<>>)), ResultCap)

Search(q, scan) ==
    /\ resp' = Resp("search", 200, Some(search(nodes, q, scan)))
    /\ UNCHANGED <<nodes, history, node_cache, now>>
    /\ IdleCalls

-----------------------------------------------------------------------------
(* SpecSearch: searches on stores with more matching rows than the queries    *)
(* take.  A store is a run of rows of each kind: rows that hold the text ab   *)
(* in the title, in title and tags, in the tags, in tags and usage, in the    *)
(* usage, a row titled ax with the tag a_, and a row that holds none.         *)

\* how far the number of rows of a kind goes over the limit of a query
SearchOver == 1

TextAB == <<"a", "b">>

SearchRow(title, tags, usage) == Row(NULL, "note", title, usage, <<>>, tags, FALSE, 0)

SearchKinds ==
    <<SearchRow(TextAB, <<>>, <<>>), SearchRow(TextAB, TextAB, <<>>),
      SearchRow(<<"x">>, TextAB, <<>>), SearchRow(<<"x">>, TextAB, TextAB),
      SearchRow(<<"x">>, <<>>, TextAB), SearchRow(<<"a", "x">>, <<"a", "_">>, <<>>),
      SearchRow(<<"x">>, <<>>, <<>>)>>

SearchCounts ==
    {0, 1, TitleCap + SearchOver} \X {0, 1, TagsCap + SearchOver}
    \X {0, 1, UsageGate - 1, TagsCap + SearchOver} \X {0, 1, TagsCap + SearchOver}
    \X {0, 1, UsageCap + SearchOver} \X {0, 1} \X {1}

RECURSIVE Blocks(_, _)
Blocks(counts, k) ==
    IF k > Len(counts) THEN <<>>
    ELSE Repeat(SearchKinds[k], counts[k]) \o Blocks(counts, k + 1)

SearchStores == {Blocks(counts, 1) : counts \in SearchCounts}

SearchKeywords ==
    {TextAB, <<"A", "b">>, <<"a", "b", " ">>, <<"a", "_">>, <<"a">>, <<" ", "a", " ">>}

InitSearch ==
    /\ nodes \in SearchStores
    /\ history = <<>>
    /\ node_cache = <<>>
    /\ now = 0
    /\ resp = NoResp
    /\ InitCalls

\* the number of searches a behaviour makes
SearchRequests == 1

DoSearch ==
    /\ served < SearchRequests
    /\ Served
    /\ \E q \in SearchKeywords, scan \in Scans : Search(q, scan)

NextSearch == DoSearch

SpecSearch == InitSearch /\ [][NextSearch]_vars

\* text holds keyword as a substring, letter case aside
Contains(text, keyword) ==
    \E i \in 1..(Len(text) - Len(keyword) + 1) :
        \A k \in 1..Len(keyword) : Lower(text[i + k - 1]) = Lower(keyword[k])

\* the weight of the highest-weight field of a row that holds the keyword, 0
\* when none does
BestWeight(row, keyword) ==
    IF Contains(row.title, keyword) THEN TitleWeight
    ELSE IF Contains(row.tags, keyword) THEN TagsWeight
    ELSE IF Contains(row.usage, keyword) THEN UsageWeight
    ELSE 0

Ranked(tbl, keyword, res) ==
    IF Len(keyword) < 2 THEN res = <<>>
    ELSE /\ Len(res) <= 50
         /\ \A i, j \in 1..Len(res) : res[i].id = res[j].id => i = j
         /\ \A i \in 1..Len(res) :
               /\ BestWeight(tbl[res[i].id], keyword) > 0
               /\ res[i].relevance = BestWeight(tbl[res[i].id], keyword)
         /\ \A i \in 1..(Len(res) - 1) : res[i].relevance >= res[i + 1].relevance
         /\ \A i, j \in 1..Len(res) :
               (/\ Contains(tbl[res[i].id].title, keyword)
                /\ ~Contains(tbl[res[j].id].title, keyword)
                /\ Contains(tbl[res[j].id].tags, keyword)) => i < j

\* C23: for a keyword of two characters or more the search result names each
\* node at most once, gives each node the weight of the highest-weight field
\* that holds the keyword (title 100, tags 80, usage 60), is in non-increasing
\* weight order and has at most 50 entries, so that a node with the keyword in
\* its title comes before a node with the keyword in its tags only; for a
\* shorter keyword the result is empty
C23_SearchRanking ==
    [][\A q \in SearchKeywords, scan \in Scans :
          (resp'.op = "search" /\ Search(q, scan)) =>
              Ranked(nodes, Strip(q), resp'.data.value)]_vars

-----------------------------------------------------------------------------
(* SpecRace: requests of several threads (app.run(threaded=True), line 949),  *)
(* each a run of steps: get_tree checks the cache, reads the store, sets the  *)
(* cache; toggle_favorite and delete_nodes commit to the store, then clear    *)
(* the cache.  A call of a cache function is one step: it runs under          *)
(* cache_lock.                                                                *)

RaceIdle == UNCHANGED <<history, now, walk, cache_lock, written, committed>>

\* get_tree, lines 342-344: the cache check, and the answer on a hit
RaceTreeCheck(t) ==
    LET cached == CacheGet(node_cache, TreeKey, now) IN
    /\ frames[t].pc = "idle"
    /\ Served
    /\ IF Truthy(cached)
       THEN /\ resp' = Resp("get_tree", 200, cached)
            /\ UNCHANGED frames
       ELSE /\ frames' = [frames EXCEPT ![t] = Frame("tree_query", TreeKey, None)]
            /\ UNCHANGED resp
    /\ UNCHANGED <<nodes, node_cache>>
    /\ RaceIdle

\* lines 347-358: Node.query.all() and the tree built of it
RaceTreeQuery(t) ==
    /\ frames[t].pc = "tree_query"
    /\ frames' = [frames EXCEPT ![t] = Frame("tree_set", TreeKey, BuildTree(nodes))]
    /\ UNCHANGED <<nodes, node_cache, resp, served>>
    /\ RaceIdle

\* lines 361-363
RaceTreeSet(t) ==
    /\ frames[t].pc = "tree_set"
    /\ node_cache' = set_cached_node(node_cache, TreeKey, frames[t].data, now)
    /\ resp' = Resp("get_tree", 200, Some(frames[t].data))
    /\ frames' = [frames EXCEPT ![t] = NoFrame]
    /\ UNCHANGED <<nodes, served>>
    /\ RaceIdle

\* toggle_favorite, lines 830-836: the commit of the flipped flag
RaceToggleCommit(t, node_id) ==
    /\ frames[t].pc = "idle"
    /\ Served
    /\ Exists(nodes, node_id)
    /\ nodes' = [nodes EXCEPT ![node_id].is_favorite = ~@, ![node_id].updated_at = now]
    /\ frames' = [frames EXCEPT ![t] =
                     Frame("write_clear", NoKey,
                           Resp("toggle_favorite", 200,
                                Some([id |-> node_id,
                                      is_favorite |-> ~nodes[node_id].is_favorite])))]
    /\ UNCHANGED <<node_cache, resp>>
    /\ RaceIdle

\* delete_nodes, lines 704-709: the commit of the delete
RaceDeleteCommit(t, ids) ==
    /\ frames[t].pc = "idle"
    /\ Served
    /\ ids # <<>>
    /\ FirstBad(nodes, ids) = 0
    /\ nodes' = DeleteRows(nodes, ids)
    /\ frames' = [frames EXCEPT ![t] =
                     Frame("write_clear", NoKey, Resp("delete", 200, None))]
    /\ UNCHANGED <<node_cache, resp>>
    /\ RaceIdle

\* lines 712-714 and 839-849: clear_node_cache(), then the answer
RaceClear(t) ==
    /\ frames[t].pc = "write_clear"
    /\ node_cache' = clear_node_cache(node_cache, frames[t].key)
    /\ resp' = frames[t].data
    /\ frames' = [frames EXCEPT ![t] = NoFrame]
    /\ UNCHANGED <<nodes, served>>
    /\ RaceIdle

\* the store of the racing requests: the root folder and a note in it
InitRace ==
    /\ nodes = Insert(Insert(<<>>, RootId, RootRow), RootId + 1,
                      Row(RootId, "note", TitleA, <<>>, <<>>, <<>>, FALSE, 0))
    /\ history = <<>>
    /\ node_cache = <<>>
    /\ now = 0
    /\ resp = NoResp
    /\ InitCalls

RaceGetTree == \E t \in Threads : RaceTreeCheck(t)

RaceQuery == \E t \in Threads : RaceTreeQuery(t)

RaceSet == \E t \in Threads : RaceTreeSet(t)

RaceToggle == \E t \in Threads, node_id \in NodeIds : RaceToggleCommit(t, node_id)

RaceDelete == \E t \in Threads, node_id \in NodeIds : RaceDeleteCommit(t, <<node_id>>)

RaceWriteReturn == \E t \in Threads : RaceClear(t)

NextRace ==
    \/ RaceGetTree
    \/ RaceQuery
    \/ RaceSet
    \/ RaceToggle
    \/ RaceDelete
    \/ RaceWriteReturn

SpecRace == InitRace /\ [][NextRace]_vars

\* every write request that has committed has also cleared the cache and returned
WritesReturned == \A t \in Threads : frames[t].pc # "write_clear"

\* C24: once a write request has returned, no later read request is answered
\* from a cache entry computed from the store as it was before that write: a
\* get_tree answered from the cache while no write is under way gives the tree
\* of the store as it is
C24_NoStaleRead ==
    [][\A t \in Threads :
          (/\ RaceTreeCheck(t)
           /\ frames' = frames
           /\ WritesReturned) => resp'.data.value = BuildTree(nodes)]_vars

-----------------------------------------------------------------------------
(* SpecCommit: requests followed to their end.  nodes and history are the     *)
(* tables as the session of the running request sees them, committed is what  *)
(* the database holds for the session of the next request.  db = SQLAlchemy   *)
(* (app), line 48, removes the session when a request ends, and a removed     *)
(* session rolls back what it has not committed.                              *)

\* the session of the last request has ended: what it saw is what is stored
NoPending == Tables(nodes, history) = committed

\* what the end of `with db.session.begin_nested()` (lines 607, 750, 884)
\* does to the database, which DATABASE_URL (line 33) names.  begin_nested
\* opens a SAVEPOINT and the end of the block releases it.  Under the sqlite3
\* driver of the default URL no transaction is open when the SAVEPOINT comes
\* (the driver opens one before an INSERT, UPDATE or DELETE only), so the
\* SAVEPOINT is the outermost transaction and its release commits.  Under a
\* driver that opens the transaction with the session's first statement the
\* release leaves that transaction open.
ReleaseOutcomes == {"commits", "stays open"}

CommitSave == NoPending /\ DoSave

CommitDelete == NoPending /\ DoDelete

CommitMove == NoPending /\ DoMove

CommitToggle == NoPending /\ DoToggle

CommitRestore == NoPending /\ DoRestore

CommitGetTree == NoPending /\ DoGetTree

\* the end of a request that wrote to its session.  delete_nodes and
\* toggle_favorite have committed (lines 709, 836); save, move_node and
\* restore_history have no commit: what the release of the savepoint has not
\* committed is rolled back with the session
EndRequest ==
    /\ ~NoPending
    /\ IF resp.op \in {"delete", "toggle_favorite"}
       THEN /\ committed' = Tables(nodes, history)
            /\ UNCHANGED <<nodes, history>>
       ELSE \E released \in ReleaseOutcomes :
               IF released = "commits"
               THEN /\ committed' = Tables(nodes, history)
                    /\ UNCHANGED <<nodes, history>>
               ELSE /\ nodes' = committed.nodes
                    /\ history' = committed.history
                    /\ UNCHANGED committed
    /\ UNCHANGED <<node_cache, now, resp, walk, cache_lock, frames, written, served>>

NextCommit ==
    \/ CommitSave
    \/ CommitDelete
    \/ CommitMove
    \/ CommitToggle
    \/ CommitRestore
    \/ CommitGetTree
    \/ EndRequest

SpecCommit == Init /\ [][NextCommit]_vars

\* C25: when save, move or restore has answered 200, its changes to the node
\* and history tables are committed by the end of the request, so that the
\* session of a later request finds them; they are not lost with the session
C25_WritesCommitted ==
    [][(/\ EndRequest
        /\ resp.op \in {"save", "move", "restore"}
        /\ resp.code = 200) =>
            /\ committed' = Tables(nodes, history)
            /\ nodes' = nodes
            /\ history' = history]_vars

-----------------------------------------------------------------------------
(* Snapshots over a save and the restore of the row it wrote.                 *)

\* the note as restore_history leaves it when it restores the row that the
\* step has just written
RestoredFromLast(id) == RestoredNode(nodes'[id], Last(history').content, now)

\* C26: when a save changes a note's usage or code_snippet and the history row
\* written by that save is then restored, the note's usage and code_snippet
\* are exactly what they were before the save, whatever their length
C26_SnapshotRoundTrip ==
    [][\A data \in TextSaveInputs :
          (/\ resp'.op = "save"
           /\ Get(data, "id", 0) # 0
           /\ Exists(nodes, Get(data, "id", 0))
           /\ Save(data)
           /\ Len(history') = Len(history) + 1
           /\ \/ nodes'[data.id].usage # nodes[data.id].usage
              \/ nodes'[data.id].code_snippet # nodes[data.id].code_snippet) =>
              /\ RestoredFromLast(data.id).usage = nodes[data.id].usage
              /\ RestoredFromLast(data.id).code_snippet = nodes[data.id].code_snippet]_vars

-----------------------------------------------------------------------------
(* The tree view against the store, on the tables of SpecTree.                *)

\* no cycle, and every parent_id that is not null names a row
IsForest(tbl) ==
    /\ ~HasCycle(tbl)
    /\ \A n \in DOMAIN tbl : tbl[n].parent_id = NULL \/ tbl[n].parent_id \in DOMAIN tbl

\* the number of rows above row n of a forest
DepthOf(tbl, n) == Cardinality(Ancestors(tbl, n))

\* node d of the view stands below the row pid, and so do its children below it
RECURSIVE PlacedRight(_, _, _)
PlacedRight(tbl, d, pid) ==
    /\ d.id \in DOMAIN tbl
    /\ tbl[d.id].parent_id = pid
    /\ "children" \in DOMAIN d =>
          \A i \in 1..Len(d.children) : PlacedRight(tbl, d.children[i], d.id)

\* the view holds each row of the set shown once, under its parent, and no other
ViewOf(tbl, tree, shown) ==
    /\ \A i \in 1..Len(tree) :
          /\ PlacedRight(tbl, tree[i], NULL)
          /\ TreeCount(tree[i]) = Cardinality(TreeIds(tree[i]))
    /\ \A i, j \in 1..Len(tree) : i # j => TreeIds(tree[i]) \cap TreeIds(tree[j]) = {}
    /\ UNION {TreeIds(tree[i]) : i \in 1..Len(tree)} = shown

\* C27 as stated: for every forest in the store, of any depth, the answer of
\* get_tree holds every node once, the top-level nodes at the top level and
\* every other node in the children list of the node its parent_id names
C27_TreeHoldsAll ==
    (resp.op = "get_tree" /\ IsForest(nodes)) =>
        ViewOf(nodes, resp.data.value, DOMAIN nodes)

\* C27, amended: for every forest in the store the answer of get_tree holds
\* every node that has at most MaxTreeDepth + 1 nodes above it once, the
\* top-level nodes at the top level and every other one in the children list
\* of the node its parent_id names; the nodes further down are left out
C27_TreeHoldsShallow ==
    (resp.op = "get_tree" /\ IsForest(nodes)) =>
        ViewOf(nodes, resp.data.value,
               {n \in DOMAIN nodes : DepthOf(nodes, n) <= MaxTreeDepth + 1})

\* get_tree has answered on a forest with two branches, one of them down to
\* the last depth that the view shows
C27_Witness ==
    /\ resp.op = "get_tree"
    /\ IsForest(nodes)
    /\ \E n \in DOMAIN nodes : DepthOf(nodes, n) = MaxTreeDepth + 1
    /\ \E n, m \in DOMAIN nodes : n # m /\ nodes[n].parent_id = 1 /\ nodes[m].parent_id = 1

-----------------------------------------------------------------------------
(* SpecParent: saves that name a parent, saves of an existing node that name  *)
(* none, and moves.                                                           *)

ParentSaveInputs ==
    [title : {TitleA}, type : {"folder", "note"}, parent_id : 0..MaxNodes]
    \cup [id : NodeIds, title : {TitleA, TitleB}]
    \cup [id : NodeIds, title : {TitleA}, parent_id : 0..MaxNodes]

ParentSave == Served /\ \E data \in ParentSaveInputs : SaveFits(data) /\ Save(data)

ParentMove ==
    Served /\ \E item_id \in 0..MaxNodes, target_id \in 0..MaxNodes : MoveNode(item_id, target_id)

NextParent ==
    \/ ParentSave
    \/ ParentMove

SpecParent == Init /\ [][NextParent]_vars

\* C28: a save of an existing node that has a parent, with no parent_id in the
\* input or with the node's own parent_id, leaves the node's parent_id as it
\* is; a node's parent changes only in a move or in a save that names another
\* folder of the store (or 0, the top level)
C28_SaveKeepsParent ==
    [][/\ \A data \in ParentSaveInputs :
             (/\ resp'.op = "save"
              /\ Get(data, "id", 0) # 0
              /\ Exists(nodes, Get(data, "id", 0))
              /\ Save(data)) =>
                 LET old == nodes[data.id].parent_id
                     new == nodes'[data.id].parent_id
                 IN /\ (/\ old # NULL
                        /\ \/ "parent_id" \notin DOMAIN data
                           \/ data.parent_id = old) => new = old
                    /\ new # old =>
                          /\ "parent_id" \in DOMAIN data
                          /\ data.parent_id # old
                          /\ \/ data.parent_id = 0
                             \/ /\ Exists(nodes, data.parent_id)
                                /\ nodes[data.parent_id].type = "folder"
       /\ \A x \in DOMAIN nodes \cap DOMAIN nodes' :
             nodes'[x].parent_id # nodes[x].parent_id => resp'.op \in {"move", "save"}]_vars

-----------------------------------------------------------------------------
(* get_breadcrumbs_api, lines 523-549, and SpecCrumbs: breadcrumbs asked for  *)
(* and searches made on chains longer than the walks go, with a cycle, a      *)
(* second branch or a parent_id of a missing row, and on every table over     *)
(* WalkIds.                                                                   *)

\* max_depth at line 534
CrumbLimit == 10

\* the walk of lines 535 to 544 with the entries put at the end of the list
RECURSIVE crumbs_appended(_, _, _)
crumbs_appended(tbl, id, acc) ==
    IF Len(acc) >= CrumbLimit THEN acc
    ELSE LET crumbs == acc \o <<[id |-> id, title |-> tbl[id].title, type |-> tbl[id].type]>>
             parent_id == tbl[id].parent_id
         IN IF parent_id # NULL /\ Exists(tbl, parent_id)
            THEN crumbs_appended(tbl, parent_id, crumbs)
            ELSE crumbs

\* lines 535-544: current.parent is the row parent_id names, None when there
\* is none
RECURSIVE get_breadcrumbs(_, _, _)
get_breadcrumbs(tbl, id, acc) ==
    IF Len(acc) >= CrumbLimit THEN acc
    ELSE LET crumbs == <<[id |-> id, title |-> tbl[id].title, type |-> tbl[id].type]>> \o acc
             parent_id == tbl[id].parent_id
         IN IF parent_id # NULL /\ Exists(tbl, parent_id)
            THEN get_breadcrumbs(tbl, parent_id, crumbs)
            ELSE crumbs

GetBreadcrumbs(nid) ==
    /\ IF ~Exists(nodes, nid)
       THEN resp' = Resp("get_breadcrumbs", 404, None)
       ELSE resp' = Resp("get_breadcrumbs", 200, Some(get_breadcrumbs(nodes, nid, <<>>)))
    /\ UNCHANGED <<nodes, history, node_cache, now>>
    /\ IdleCalls

CrumbRow(parent_id) == Row(parent_id, "folder", TextAB, <<>>, <<>>, <<>>, FALSE, 0)

CrumbTables ==
    {[i \in WalkIds |-> CrumbRow(f[i])] : f \in [WalkIds -> 0..WalkNodes]}
    \cup {[i \in 1..n |-> CrumbRow(ChainParent(n, m, kind, i))] :
             n \in 1..TreeNodes, m \in 0..TreeNodes, kind \in {"cycle", "branch", "orphan"}}

InitCrumbs ==
    /\ nodes \in CrumbTables
    /\ history = <<>>
    /\ node_cache = <<>>
    /\ now = 0
    /\ resp = NoResp
    /\ InitCalls

CrumbGet ==
    /\ served < SearchRequests
    /\ Served
    /\ \E nid \in 0..TreeNodes : GetBreadcrumbs(nid)

CrumbSearch ==
    /\ served < SearchRequests
    /\ Served
    /\ \E scan \in Scans : Search(TextAB, scan)

NextCrumbs ==
    \/ CrumbGet
    \/ CrumbSearch

SpecCrumbs == InitCrumbs /\ [][NextCrumbs]_vars

\* a list of one to limit entries that ends with the row id, each entry the
\* parent of the entry after it
CrumbsOf(tbl, crumbs, id, limit) ==
    /\ Len(crumbs) >= 1
    /\ Len(crumbs) <= limit
    /\ crumbs[Len(crumbs)].id = id
    /\ \A i \in 1..(Len(crumbs) - 1) : tbl[crumbs[i + 1].id].parent_id = crumbs[i].id

\* C29: on every parent_id table, cyclic ones included, get_breadcrumbs(id)
\* answers with at most 10 entries and the breadcrumbs of a search result have
\* at most 5; each list ends with the node asked for and each entry is the
\* parent of the entry that follows it
C29_CrumbsBounded ==
    [][/\ \A nid \in 1..TreeNodes :
             (/\ resp'.op = "get_breadcrumbs"
              /\ Exists(nodes, nid)
              /\ GetBreadcrumbs(nid)) =>
                 /\ resp'.code = 200
                 /\ CrumbsOf(nodes, resp'.data.value, nid, 10)
       /\ \A scan \in Scans :
             (resp'.op = "search" /\ Search(TextAB, scan)) =>
                 \A i \in 1..Len(resp'.data.value) :
                     CrumbsOf(nodes, resp'.data.value[i].breadcrumbs,
                              resp'.data.value[i].id, 5)]_vars

\* get_breadcrumbs has answered for a row on a cycle: the walk went round
\* until the list had 10 entries
C29_Witness ==
    /\ resp.op = "get_breadcrumbs"
    /\ resp.code = 200
    /\ Len(resp.data.value) = CrumbLimit
    /\ resp.data.value[CrumbLimit].id \in Ancestors(nodes, resp.data.value[CrumbLimit].id)

=============================================================================
